---------------------------- MODULE Spec2Model ----------------------------
(***************************************************************************)
(* Model of power_and_utilities_daily:                                     *)
(*   scripts/build_brief.py     - the Brief Assembler (dedupe, freshness,  *)
(*                                relevance gate, scoring, packing)        *)
(*   scripts/publish_episode.py - speech normalizer, chunker, TTS renderer *)
(*                                with fallback, feed publisher            *)
(*                                                                         *)
(* Text is modelled as a sequence of one-character strings.  A few fixed   *)
(* multi-character literals of the source (tags of the feed template, the  *)
(* "http://" prefix, the words of the wrapper markers) are single atoms of  *)
(* such a sequence; every other character is itself.                       *)
(***************************************************************************)
EXTENDS Integers, Sequences, FiniteSets, TLC

VARIABLES
    \* chunk_text(text, max_chars)
    ct_text, ct_max_chars, ct_chunks, ct_pc,
    \* speech_optimize(text), and speech_optimize of its result
    so_text, so_once, so_twice, so_pc,
    \* docs/feed.xml, and the calls of update_feed_xml made on it
    feed, fd_calls, fd_last, fd_prev, fd_before,
    \* publish_episode.py main(): the files it works on and one run's locals
    pc, runs, env, date, brief, eps, tmp,
    speech_text, tts_chunks, chunk_files,
    primary_calls, fallback_calls, failed_at, error, feed_at_start,
    \* build_brief.py main(): the feed being read, the locals seen, items, top,
    \* lines and script, and the entry the loop body handled last
    bb_pc, bb_feed, bb_seen, bb_items, bb_last, bb_top, bb_lines, bb_script

chunkVars == <<ct_text, ct_max_chars, ct_chunks, ct_pc>>
normVars == <<so_text, so_once, so_twice, so_pc>>

feedVars == <<feed, fd_calls, fd_last, fd_prev, fd_before>>

publishVars == <<pc, runs, env, date, brief, eps, tmp, speech_text, tts_chunks,
                 chunk_files, primary_calls, fallback_calls, failed_at, error,
                 feed_at_start>>

briefVars == <<bb_pc, bb_feed, bb_seen, bb_items, bb_last, bb_top, bb_lines,
               bb_script>>

vars == <<chunkVars, normVars, feedVars, publishVars, briefVars>>

-----------------------------------------------------------------------------
(* Bounds of the model *)

\* longest text handed to chunk_text
MaxTextLen == 5
\* largest chunk limit handed to chunk_text
MaxLimit == 3
\* longest script text handed to speech_optimize
MaxScriptLen == 4
\* most calls of update_feed_xml on one feed document
MaxCalls == 3
\* most publish runs in a row, and most calendar days they spread over
MaxRuns == 1
MaxDates == 2
\* the provider's character limit per request at the scale of the sample
\* briefs (it stands for OPENAI_MAX_CHARS = 4096 of full-size scripts)
ChunkLimit == 12

-----------------------------------------------------------------------------
(* Strings *)

NL == "\n"
NLNL == <<NL, NL>>

\* the characters str.strip() and the regex class \s remove / match
IsSpace(c) == c \in {" ", "\n", "\r", "\t"}

NotSpace(c) == ~IsSpace(c)

\* all sequences over S of length 0..n
SeqsUpTo(S, n) == UNION {[1..k -> S] : k \in 0..n}

RECURSIVE LStrip(_)
LStrip(s) ==
    IF s # <<>> /\ IsSpace(Head(s)) THEN LStrip(Tail(s)) ELSE s

RECURSIVE RStrip(_)
RStrip(s) ==
    IF s # <<>> /\ IsSpace(s[Len(s)]) THEN RStrip(SubSeq(s, 1, Len(s) - 1)) ELSE s

\* str.strip()
Strip(s) == RStrip(LStrip(s))

\* first index i >= from with s[i..] starting with pat, or 0
RECURSIVE Find(_, _, _)
Find(s, pat, from) ==
    IF from + Len(pat) - 1 > Len(s) THEN 0
    ELSE IF SubSeq(s, from, from + Len(pat) - 1) = pat THEN from
    ELSE Find(s, pat, from + 1)

\* pat in s
Contains(s, pat) == Find(s, pat, 1) # 0

\* str.split(sep): leftmost, non-overlapping separators
RECURSIVE Split(_, _)
Split(s, sep) ==
    LET i == Find(s, sep, 1) IN
    IF i = 0 THEN <<s>>
    ELSE <<SubSeq(s, 1, i - 1)>> \o Split(SubSeq(s, i + Len(sep), Len(s)), sep)

\* sep.join(parts)
RECURSIVE Join(_, _)
Join(parts, sep) ==
    IF parts = <<>> THEN <<>>
    ELSE IF Len(parts) = 1 THEN parts[1]
    ELSE parts[1] \o sep \o Join(Tail(parts), sep)

\* "".join(parts)
Concat(parts) == Join(parts, <<>>)

\* str.replace(old, new): leftmost, non-overlapping
RECURSIVE Replace(_, _, _)
Replace(s, old, new) ==
    LET i == Find(s, old, 1) IN
    IF i = 0 THEN s
    ELSE SubSeq(s, 1, i - 1) \o new
         \o Replace(SubSeq(s, i + Len(old), Len(s)), old, new)

-----------------------------------------------------------------------------
(* The state of the parts a specification does not exercise *)

\* the feed file: absent, or present with its text
NoFile == [exists |-> FALSE, xml |-> <<>>]
File(xml) == [exists |-> TRUE, xml |-> xml]

NoCall == [title |-> <<>>, guid |-> <<>>, url |-> <<>>, outcome |-> "none"]

IdleChunk ==
    /\ ct_text = <<>>
    /\ ct_max_chars = 1
    /\ ct_chunks = <<>>
    /\ ct_pc = "idle"

IdleNorm ==
    /\ so_text = <<>>
    /\ so_once = <<>>
    /\ so_twice = <<>>
    /\ so_pc = "idle"

IdleFeed ==
    /\ feed = NoFile
    /\ fd_calls = 0
    /\ fd_last = NoCall
    /\ fd_prev = NoCall
    /\ fd_before = NoFile

\* no run of the publisher has started
NoEnv == [is_test |-> FALSE, FORCE_REGEN |-> FALSE, NORMALIZE_AUDIO |-> TRUE,
          OPENAI_API_KEY |-> TRUE]
NoRun ==
    /\ runs = 0
    /\ env = NoEnv
    /\ date = 1
    /\ brief = NoFile
    /\ eps = <<>>
    /\ tmp = {}
    /\ speech_text = <<>>
    /\ tts_chunks = <<>>
    /\ chunk_files = <<>>
    /\ primary_calls = <<>>
    /\ fallback_calls = <<>>
    /\ failed_at = 0
    /\ error = ""
    /\ feed_at_start = feed

IdlePublish == pc = "unused" /\ NoRun

\* the Brief Assembler has not been started
NoText == [words |-> <<>>, more |-> 0]
EmptyLink == [ok |-> TRUE, path |-> 0, query |-> <<>>]
NoEntry == [entry |-> [link |-> EmptyLink, title |-> NoText, summary |-> NoText,
                       published_parsed |-> <<>>, updated_parsed |-> <<>>],
            outcome |-> "none"]
IdleBrief ==
    /\ bb_pc = "unused"
    /\ bb_feed = 0
    /\ bb_seen = {}
    /\ bb_items = <<>>
    /\ bb_last = NoEntry
    /\ bb_top = <<>>
    /\ bb_lines = <<>>
    /\ bb_script = <<>>

-----------------------------------------------------------------------------
(* update_feed_xml: publish_episode.py lines 266-325 *)

\* literals of the feed document and of the item template
LBD_OPEN == "<lastBuildDate>"
LBD_CLOSE == "</lastBuildDate>"
MARKER == "<!-- Placeholder episode"
ITEM_TITLE == "<item><title>"
TITLE_DESCRIPTION == "</title><description>"
DESCRIPTION_SUMMARY == "</description><itunes:summary>"
SUMMARY_PUBDATE == "</itunes:summary><pubDate>"
PUBDATE_GUID == "</pubDate><guid isPermaLink=false>"
GUID_ENCLOSURE == "</guid><enclosure url="
URL_LENGTH == " length="
LENGTH_END == " type=audio/mpeg /></item>"
INDENT == "    "

\* description = "Automated daily briefing. ..." (no character escape_xml changes)
DESCRIPTION == <<"Automated daily briefing.">>

\* mutant of escape_xml: nothing is escaped
escape_xml_identity(s) == s

\* escape_xml(s): & first, then < > " '
escape_xml(s) ==
    Replace(Replace(Replace(Replace(Replace(s,
        <<"&">>, <<"&", "a", "m", "p", ";">>),
        <<"<">>, <<"&", "l", "t", ";">>),
        <<">">>, <<"&", "g", "t", ";">>),
        <<"\"">>, <<"&", "q", "u", "o", "t", ";">>),
        <<"'">>, <<"&", "a", "p", "o", "s", ";">>)

\* email.utils.format_datetime(pub_dt_utc): the RFC 2822 text of an instant
\* (instants are counted in hours from the first one)
format_datetime(t) == <<"04 Nov 2026 ", ToString(t), ":00:00 +0000">>

\* str(enclosure_len)
str(n) == <<ToString(n)>>

\* re.sub(r"<lastBuildDate>.*?</lastBuildDate>", repl, xml, flags=re.DOTALL)
RECURSIVE SubLastBuildDate(_, _)
SubLastBuildDate(xml, repl) ==
    IF xml = <<>> THEN <<>>
    ELSE LET close == Find(xml, <<LBD_CLOSE>>, 2) IN
         IF Head(xml) = LBD_OPEN /\ close # 0
         THEN repl \o SubLastBuildDate(SubSeq(xml, close + 1, Len(xml)), repl)
         ELSE <<Head(xml)>> \o SubLastBuildDate(Tail(xml), repl)

\* item_xml = f"""<item> ... </item>"""
item_xml(title, description, pub_dt_utc, enclosure_url, enclosure_len, guid) ==
    <<ITEM_TITLE>> \o escape_xml(title)
    \o <<TITLE_DESCRIPTION>> \o escape_xml(description)
    \o <<DESCRIPTION_SUMMARY>> \o escape_xml(description)
    \o <<SUMMARY_PUBDATE>> \o format_datetime(pub_dt_utc)
    \o <<PUBDATE_GUID>> \o escape_xml(guid)
    \o <<GUID_ENCLOSURE>> \o escape_xml(enclosure_url)
    \o <<URL_LENGTH>> \o str(enclosure_len)
    \o <<LENGTH_END>>

\* mutant of update_feed_xml: the new entry is put after the marker
update_feed_xml_after_marker(f, title, description, pub_dt_utc, enclosure_url, enclosure_len, guid) ==
    IF ~f.exists THEN [outcome |-> "raise: feed not found", feed |-> f]
    ELSE LET xml == SubLastBuildDate(f.xml,
                        <<LBD_OPEN>> \o format_datetime(pub_dt_utc) \o <<LBD_CLOSE>>)
         IN
         IF Contains(xml, guid) \/ Contains(xml, enclosure_url)
         THEN [outcome |-> "skipped", feed |-> File(xml)]
         ELSE IF ~Contains(xml, <<MARKER>>)
         THEN [outcome |-> "raise: no marker", feed |-> f]
         ELSE [outcome |-> "inserted",
               feed |-> File(Replace(xml, <<MARKER>>,
                            <<MARKER, INDENT>>
                            \o item_xml(title, description, pub_dt_utc,
                                        enclosure_url, enclosure_len, guid)))]

\* mutant of update_feed_xml: the document with the new lastBuildDate is
\* written before the marker is looked for
update_feed_xml_early_write(f, title, description, pub_dt_utc, enclosure_url, enclosure_len, guid) ==
    IF ~f.exists THEN [outcome |-> "raise: feed not found", feed |-> f]
    ELSE LET xml == SubLastBuildDate(f.xml,
                        <<LBD_OPEN>> \o format_datetime(pub_dt_utc) \o <<LBD_CLOSE>>)
         IN
         IF Contains(xml, guid) \/ Contains(xml, enclosure_url)
         THEN [outcome |-> "skipped", feed |-> File(xml)]
         ELSE IF ~Contains(xml, <<MARKER>>)
         THEN [outcome |-> "raise: no marker", feed |-> File(xml)]
         ELSE [outcome |-> "inserted",
               feed |-> File(Replace(xml, <<MARKER>>,
                            item_xml(title, description, pub_dt_utc,
                                     enclosure_url, enclosure_len, guid)
                            \o <<INDENT, MARKER>>))]

\* update_feed_xml(...): how the call ends and the feed file it leaves
update_feed_xml(f, title, description, pub_dt_utc, enclosure_url, enclosure_len, guid) ==
    IF ~f.exists THEN [outcome |-> "raise: feed not found", feed |-> f]
    ELSE LET xml == SubLastBuildDate(f.xml,
                        <<LBD_OPEN>> \o format_datetime(pub_dt_utc) \o <<LBD_CLOSE>>)
         IN
         IF Contains(xml, guid) \/ Contains(xml, enclosure_url)
         THEN [outcome |-> "skipped", feed |-> File(xml)]
         ELSE IF ~Contains(xml, <<MARKER>>)
         THEN [outcome |-> "raise: no marker", feed |-> f]
         ELSE [outcome |-> "inserted",
               feed |-> File(Replace(xml, <<MARKER>>,
                            item_xml(title, description, pub_dt_utc,
                                     enclosure_url, enclosure_len, guid)
                            \o <<INDENT, MARKER>>))]

Returned(outcome) == outcome \in {"skipped", "inserted"}

\* feed documents the publisher may find
FeedHead == <<"<rss><channel>", LBD_OPEN>> \o format_datetime(0) \o <<LBD_CLOSE>>
FeedTail == <<MARKER, " -->", "</channel></rss>">>
InitialFeeds ==
    { File(FeedHead \o FeedTail),
      File(<<"<rss><channel>">> \o FeedTail),
      File(FeedHead \o <<"</channel></rss>">>),
      NoFile }

\* titles, guids and enclosure URLs handed to update_feed_xml
Titles == { <<"T">>, <<"T", "&", "1">> }
Episodes ==
    { [guid |-> <<"g", "1">>, url |-> <<"u", "1">>],
      [guid |-> <<"g", "2">>, url |-> <<"u", "2">>],
      [guid |-> <<"g", "<", "3">>, url |-> <<"u", "&", "3">>] }

\* a feed document that holds a published episode and has lost its anchor
AnchorLostFeed ==
    File(FeedHead
         \o item_xml(<<"T">>, DESCRIPTION, 0, <<"u", "1">>, 1, <<"g", "1">>)
         \o <<"</channel></rss>">>)

StartFeed ==
    /\ feed \in InitialFeeds \cup {AnchorLostFeed}
    /\ fd_calls = 0
    /\ fd_last = NoCall
    /\ fd_prev = NoCall
    /\ fd_before = feed

\* one call update_feed_xml(title, description, pub_dt_utc, enclosure_url,
\* enclosure_len, guid) at instant fd_calls + 1
CallUpdateFeed(title, ep, len) ==
    /\ fd_calls < MaxCalls
    /\ LET r == update_feed_xml(feed, title, DESCRIPTION, fd_calls + 1,
                                ep.url, len, ep.guid)
       IN  /\ feed' = r.feed
           /\ fd_last' = [title |-> title, guid |-> ep.guid, url |-> ep.url,
                          outcome |-> r.outcome]
    /\ fd_prev' = fd_last
    /\ fd_before' = feed
    /\ fd_calls' = fd_calls + 1
    /\ UNCHANGED <<chunkVars, normVars, publishVars, briefVars>>

NextFeed == \E title \in Titles, ep \in Episodes, len \in {1, 2} :
                CallUpdateFeed(title, ep, len)

InitFeed == StartFeed /\ IdleChunk /\ IdleNorm /\ IdlePublish /\ IdleBrief

SpecFeed == InitFeed /\ [][NextFeed]_vars

\* number of occurrences of pat in s
RECURSIVE Count(_, _)
Count(s, pat) ==
    LET i == Find(s, pat, 1) IN
    IF i = 0 THEN 0 ELSE 1 + Count(SubSeq(s, i + 1, Len(s)), pat)

\* the document with the content of its lastBuildDate field blanked
WithoutLastBuildDate(f) ==
    [f EXCEPT !.xml = SubLastBuildDate(f.xml, <<LBD_OPEN, LBD_CLOSE>>)]

\* the guid element of an entry of the feed
GuidElement(guid) == <<PUBDATE_GUID>> \o escape_xml(guid) \o <<GUID_ENCLOSURE>>

\* the last two calls carried the same guid and enclosure URL, and the
\* first of them returned
RepeatedCall ==
    /\ Returned(fd_prev.outcome)
    /\ fd_last.guid = fd_prev.guid
    /\ fd_last.url = fd_prev.url

\* C2: update_feed_xml is idempotent on the entry list: a second call with
\* the same guid and enclosure URL after a successful first call changes
\* only lastBuildDate, and no guid appears in more than one entry.
C2_IdempotentPublish ==
    RepeatedCall =>
        /\ WithoutLastBuildDate(feed) = WithoutLastBuildDate(fd_before)
        /\ Count(feed.xml, GuidElement(fd_last.guid)) <= 1

-----------------------------------------------------------------------------
(* chunk_text: publish_episode.py lines 102-130 *)

\* mutant of HardSplit: the length test is off by one (len(p) > max_chars + 1)
RECURSIVE HardSplitOffByOne(_, _, _)
HardSplitOffByOne(chunks, p, max_chars) ==
    IF Len(p) > max_chars + 1
    THEN HardSplitOffByOne(Append(chunks, SubSeq(p, 1, max_chars)),
                           SubSeq(p, max_chars + 1, Len(p)), max_chars)
    ELSE [chunks |-> chunks, p |-> p]

\* while len(p) > max_chars: chunks.append(p[:max_chars]); p = p[max_chars:]
RECURSIVE HardSplit(_, _, _)
HardSplit(chunks, p, max_chars) ==
    IF Len(p) > max_chars
    THEN HardSplit(Append(chunks, SubSeq(p, 1, max_chars)),
                   SubSeq(p, max_chars + 1, Len(p)), max_chars)
    ELSE [chunks |-> chunks, p |-> p]

\* mutant of ChunkBody: the running segment is not flushed before an
\* over-long paragraph replaces it
ChunkBodyNoFlush(chunks, cur, p, max_chars) ==
    LET candidate == Strip(cur \o (IF cur # <<>> THEN NLNL ELSE <<>>) \o p) IN
    IF Len(candidate) <= max_chars
    THEN [chunks |-> chunks, cur |-> candidate]
    ELSE LET hs == HardSplit(chunks, p, max_chars)
         IN  [chunks |-> hs.chunks, cur |-> hs.p]

\* one iteration of "for p in paras": the new (chunks, cur)
ChunkBody(chunks, cur, p, max_chars) ==
    LET candidate == Strip(cur \o (IF cur # <<>> THEN NLNL ELSE <<>>) \o p) IN
    IF Len(candidate) <= max_chars
    THEN [chunks |-> chunks, cur |-> candidate]
    ELSE LET flushed == IF cur # <<>> THEN Append(chunks, cur) ELSE chunks
             hs == HardSplit(flushed, p, max_chars)
         IN  [chunks |-> hs.chunks, cur |-> hs.p]

RECURSIVE ChunkLoop(_, _, _, _)
ChunkLoop(paras, chunks, cur, max_chars) ==
    IF paras = <<>>
    THEN IF cur # <<>> THEN Append(chunks, cur) ELSE chunks
    ELSE LET st == ChunkBody(chunks, cur, Head(paras), max_chars)
         IN  ChunkLoop(Tail(paras), st.chunks, st.cur, max_chars)

\* return [c for c in chunks if c.strip()]
NotBlank(c) == Strip(c) # <<>>

chunk_text(text, max_chars) ==
    SelectSeq(ChunkLoop(Split(text, NLNL), <<>>, <<>>, max_chars), NotBlank)

ChunkAlphabet == {"a", "b", " ", NL}

StartChunk ==
    /\ ct_text \in SeqsUpTo(ChunkAlphabet, MaxTextLen)
    /\ ct_max_chars \in 1..MaxLimit
    /\ ct_chunks = <<>>
    /\ ct_pc = "call"

CallChunkText ==
    /\ ct_pc = "call"
    /\ ct_chunks' = chunk_text(ct_text, ct_max_chars)
    /\ ct_pc' = "returned"
    /\ UNCHANGED <<ct_text, ct_max_chars, normVars, feedVars, publishVars,
                   briefVars>>

NextChunk == CallChunkText

InitChunk == StartChunk /\ IdleNorm /\ IdleFeed /\ IdlePublish /\ IdleBrief

SpecChunk == InitChunk /\ [][NextChunk]_vars

\* the text with every whitespace character removed
NonSpace(s) == SelectSeq(s, NotSpace)

\* C6: every chunk chunk_text returns has length <= max_chars and is neither
\* empty nor whitespace-only, hard-split paragraphs included.
C6_ChunksBoundedNonEmpty ==
    ct_pc = "returned" =>
        \A i \in 1..Len(ct_chunks) :
            /\ Len(ct_chunks[i]) <= ct_max_chars
            /\ Strip(ct_chunks[i]) # <<>>

\* a paragraph longer than the limit was hard-split into several chunks
C6_Witness ==
    /\ ct_pc = "returned"
    /\ \E k \in 1..Len(Split(ct_text, NLNL)) :
            Len(Split(ct_text, NLNL)[k]) > ct_max_chars
    /\ Len(ct_chunks) >= 2
    /\ \E i \in 1..Len(ct_chunks) : Len(ct_chunks[i]) = ct_max_chars

-----------------------------------------------------------------------------
(* speech_optimize: publish_episode.py lines 56-99 *)

\* atoms of the script text
HTTP == "http://"
SCRIPT_START == <<"----", " ", "SCRIPT", " ", "START", " ", "----">>
SCRIPT_END == <<"----", " ", "SCRIPT", " ", "END", " ", "----">>
NEXT_STORY == <<"Next", " ", "story">>
\* U+2014 and U+2013, the two long dashes
EM_DASH == "<em dash>"
EN_DASH == "<en dash>"
ELLIPSIS == <<".", ".", ".">>
IsDigit(c) == c \in {"0", "1", "2", "3", "4", "5", "6", "7", "8", "9"}

IsBlankChar(c) == c \in {" ", "\t"}

\* the regex character classes \s, \S, [ \t], \n and \d
InClass(c, class) ==
    CASE class = "\\s" -> IsSpace(c)
      [] class = "\\S" -> NotSpace(c)
      [] class = "[ \\t]" -> IsBlankChar(c)
      [] class = "\\n" -> c = NL
      [] class = "\\d" -> IsDigit(c)

\* length of the longest prefix of s whose characters all satisfy Test
RECURSIVE PrefixLen(_, _)
PrefixLen(s, class) ==
    IF s # <<>> /\ InClass(Head(s), class) THEN 1 + PrefixLen(Tail(s), class) ELSE 0

\* largest i <= n with s[i] = "\n", or 0
RECURSIVE LastNewline(_, _)
LastNewline(s, n) ==
    IF n = 0 THEN 0 ELSE IF s[n] = NL THEN n ELSE LastNewline(s, n - 1)


\* re.sub(r"https?://\S+", "", text)
RECURSIVE RemoveUrls(_)
RemoveUrls(s) ==
    IF s = <<>> THEN <<>>
    ELSE IF Head(s) = HTTP /\ PrefixLen(Tail(s), "\\S") >= 1
         THEN RemoveUrls(SubSeq(s, 2 + PrefixLen(Tail(s), "\\S"), Len(s)))
         ELSE <<Head(s)>> \o RemoveUrls(Tail(s))

\* re.sub(r"[ \t]+", " ", text)
RECURSIVE CollapseBlanks(_)
CollapseBlanks(s) ==
    IF s = <<>> THEN <<>>
    ELSE IF IsBlankChar(Head(s))
         THEN <<" ">> \o CollapseBlanks(SubSeq(s, 1 + PrefixLen(s, "[ \\t]"), Len(s)))
         ELSE <<Head(s)>> \o CollapseBlanks(Tail(s))

\* re.sub(r"\n\s*\n+", repl, text) and re.sub(r"\n\s*\n", repl, text):
\* a match starts at a newline and, \s* being greedy, ends at the last
\* newline of the whitespace run that starts there
RECURSIVE SubParagraphBreaks(_, _)
SubParagraphBreaks(s, repl) ==
    IF s = <<>> THEN <<>>
    ELSE LET last == LastNewline(s, PrefixLen(s, "\\s")) IN
         IF Head(s) = NL /\ last >= 2
         THEN repl \o SubParagraphBreaks(SubSeq(s, last + 1, Len(s)), repl)
         ELSE <<Head(s)>> \o SubParagraphBreaks(Tail(s), repl)

\* lines = text.split("\n"); lines[0] = lines[0].strip() + "..."; "\n".join(lines)
HeadlinePause(s) ==
    LET lines == Split(s, <<NL>>) IN
    Join(<<Strip(lines[1]) \o ELLIPSIS>> \o Tail(lines), <<NL>>)

\* re.sub(r"\n\n(\d+)\.\s", lambda m: ... , text)
RECURSIVE StoryTransitions(_)
StoryTransitions(s) ==
    IF s = <<>> THEN <<>>
    ELSE LET d == IF Len(s) >= 2 THEN PrefixLen(SubSeq(s, 3, Len(s)), "\\d") ELSE 0
             matches == /\ Len(s) >= 4 + d
                        /\ s[1] = NL /\ s[2] = NL
                        /\ d >= 1
                        /\ s[3 + d] = "."
                        /\ IsSpace(s[4 + d])
         IN
         IF matches
         THEN (IF SubSeq(s, 3, 2 + d) # <<"1">>
               THEN NLNL \o NEXT_STORY \o ELLIPSIS \o NLNL
                    \o SubSeq(s, 3, 4 + d)
               ELSE SubSeq(s, 1, 4 + d))
              \o StoryTransitions(SubSeq(s, 5 + d, Len(s)))
         ELSE <<Head(s)>> \o StoryTransitions(Tail(s))

\* re.sub(r"\s+\n", "\n", text): a match starts at a whitespace character
\* and ends at the last newline of the whitespace run that starts there
RECURSIVE SubTrailingSpace(_)
SubTrailingSpace(s) ==
    IF s = <<>> THEN <<>>
    ELSE LET last == LastNewline(s, PrefixLen(s, "\\s")) IN
         IF IsSpace(Head(s)) /\ last >= 2
         THEN <<NL>> \o SubTrailingSpace(SubSeq(s, last + 1, Len(s)))
         ELSE <<Head(s)>> \o SubTrailingSpace(Tail(s))

\* re.sub(r"\n{3,}", "\n\n", text)
RECURSIVE CollapseNewlines(_)
CollapseNewlines(s) ==
    IF s = <<>> THEN <<>>
    ELSE LET n == PrefixLen(s, "\\n") IN
         IF n >= 3 THEN NLNL \o CollapseNewlines(SubSeq(s, n + 1, Len(s)))
         ELSE <<Head(s)>> \o CollapseNewlines(Tail(s))

speech_optimize(text) ==
    LET t1 == Replace(text, <<"\r", NL>>, <<NL>>)
        t2 == RemoveUrls(t1)
        t3 == Replace(Replace(t2, SCRIPT_START, <<>>), SCRIPT_END, <<>>)
        t4 == CollapseBlanks(t3)
        t5 == Strip(SubParagraphBreaks(t4, NLNL))
        t6 == HeadlinePause(t5)
        t7 == SubParagraphBreaks(t6, NLNL \o ELLIPSIS \o NLNL)
        t8 == StoryTransitions(t7)
        t9 == Replace(Replace(t8, <<EM_DASH>>, <<",", " ">>), <<EN_DASH>>, <<",", " ">>)
        t10 == SubTrailingSpace(t9)
    IN  Strip(CollapseNewlines(t10))

ScriptAlphabet == {"a", "1", "2", ".", " ", NL, "\r", EM_DASH, HTTP}

\* scripts of the shape build_brief.py prints: wrapper markers, a headline,
\* the disclosure paragraph and numbered story blocks with a link line
Headline == <<"a", EM_DASH, "a">>
StoryBlock(n) == n \o <<".", " ", "a", NL, HTTP, "a", NL, "a">>
ScriptSamples ==
    { Headline \o NLNL \o <<"a", ".">>,
      Headline \o NLNL \o StoryBlock(<<"1">>),
      Headline \o NLNL \o StoryBlock(<<"1">>) \o NLNL \o StoryBlock(<<"2">>),
      SCRIPT_START \o <<NL>> \o Headline \o NLNL \o StoryBlock(<<"1">>)
          \o NLNL \o StoryBlock(<<"1", "2">>) \o <<NL>> \o SCRIPT_END \o <<NL>> }

StartNorm ==
    /\ so_text \in SeqsUpTo(ScriptAlphabet, MaxScriptLen) \cup ScriptSamples
    /\ so_once = <<>>
    /\ so_twice = <<>>
    /\ so_pc = "first"

\* speech_text = speech_optimize(brief_raw)
Normalize ==
    /\ so_pc = "first"
    /\ so_once' = speech_optimize(so_text)
    /\ so_pc' = "second"
    /\ UNCHANGED <<so_text, so_twice, chunkVars, feedVars, publishVars, briefVars>>

\* the normalizer run again on its own output
NormalizeAgain ==
    /\ so_pc = "second"
    /\ so_twice' = speech_optimize(so_once)
    /\ so_pc' = "done"
    /\ UNCHANGED <<so_text, so_once, chunkVars, feedVars, publishVars, briefVars>>

NextNorm == Normalize \/ NormalizeAgain

InitNorm == StartNorm /\ IdleChunk /\ IdleFeed /\ IdlePublish /\ IdleBrief

SpecNorm == InitNorm /\ [][NextNorm]_vars

\* C5: speech_optimize is idempotent: normalizing already-normalized text
\* changes nothing.
C5_NormalizerIdempotent ==
    so_pc = "done" => so_twice = so_once

-----------------------------------------------------------------------------
(* main, generate_mp3_openai, fallback_espeak_to_mp3:                      *)
(* publish_episode.py lines 133-259 and 328-436                            *)

SITE_BASE == "https://darianaghili.github.io/power_and_utilities_daily"

\* now_et.strftime("%Y-%m-%d") on day d
date_str(d) == <<"2026-11-", ToString(d)>>

\* mp3_filename, guid, title and enclosure_url of a run (lines 380-387, 414)
mp3_stem(is_test, d) == IF is_test THEN <<"test-openai">> ELSE date_str(d)
mp3_path(is_test, d) == <<mp3_stem(is_test, d), ".mp3">>
normalized_path(is_test, d) == <<mp3_stem(is_test, d), ".normalized.mp3">>
guid_of(is_test, d, now) ==
    IF is_test THEN <<"test-openai-", ToString(now)>>
    ELSE <<"daily-brief-">> \o date_str(d)
title_of(is_test, d) ==
    IF is_test THEN <<"OpenAI voice test">>
    ELSE <<"Daily Brief ", EM_DASH, " ">> \o date_str(d)
enclosure_url_of(is_test, d) ==
    <<SITE_BASE, "/eps/">> \o mp3_stem(is_test, d) \o <<".mp3">>

\* an audio file: who rendered it and how often the loudness filter ran on it
Audio(by, loudnorm) == [by |-> by, loudnorm |-> loudnorm]
\* file_size_bytes(path)
file_size_bytes(audio) ==
    CASE audio.by = "openai" -> 3
      [] audio.by = "espeak" -> 2
      [] OTHER -> 1

\* temporary artifacts of run r: its tts_<date>_ directory and chunk files
TmpDir(r) == <<r, 0>>
ChunkFile(r, i) == <<r, i>>

\* the "finally" of generate_mp3_openai: unlink every path of chunk_files,
\* then rmdir the directory, which fails (and is ignored) unless it is empty
Cleanup(files, r, listed) ==
    LET left == files \ {ChunkFile(r, listed[j]) : j \in 1..Len(listed)} IN
    IF \E f \in left : f[1] = r /\ f # TmpDir(r)
    THEN left
    ELSE left \ {TmpDir(r)}

\* briefs found at docs/briefs/latest.txt
BriefSamples ==
    { <<"a">>,
      Headline \o NLNL \o StoryBlock(<<"2">>) }

\* the environment: NORMALIZE_AUDIO and the OPENAI_API_KEY secret are set
\* once for the deployment, TEST_RUN and FORCE_REGEN run by run
Environments ==
    [is_test : BOOLEAN, FORCE_REGEN : BOOLEAN, NORMALIZE_AUDIO : BOOLEAN,
     OPENAI_API_KEY : BOOLEAN]
Deployments == {e \in Environments : ~e.is_test /\ ~e.FORCE_REGEN}

\* what earlier runs may have left: nothing, or the episode of day 1
\* rendered and, if the run got that far, published
EarlierEpisodes ==
    { <<>>,
      mp3_path(FALSE, 1) :> Audio("openai", 1) }
EarlierFeeds ==
    InitialFeeds \cup
    { update_feed_xml(File(FeedHead \o FeedTail), title_of(FALSE, 1),
                      DESCRIPTION, 0, enclosure_url_of(FALSE, 1), 3,
                      guid_of(FALSE, 1, 0)).feed }

StartPublish ==
    /\ pc = "idle"
    /\ runs = 0
    /\ env \in Deployments
    /\ date = 1
    /\ brief = NoFile
    /\ eps \in EarlierEpisodes
    /\ tmp = {}
    /\ speech_text = <<>>
    /\ tts_chunks = <<>>
    /\ chunk_files = <<>>
    /\ primary_calls = <<>>
    /\ fallback_calls = <<>>
    /\ failed_at = 0
    /\ error = ""
    /\ feed_at_start = feed

\* mutant of AfterChunkFailure: the loop goes on to the next chunk
AfterChunkFailureRetry == "primary"

\* where main continues when openai_tts_mp3 or write_bytes raised for a
\* chunk: the exception leaves generate_mp3_openai and main falls back
AfterChunkFailure == "fallback"

\* main() up to the call of generate_mp3_openai, and the first lines of
\* generate_mp3_openai (chunking, mkdtemp)
BeginRun(e, b, d) ==
    /\ pc \in {"idle", "done", "skipped", "fatal"}
    /\ runs < MaxRuns
    /\ d \in {date, date + 1} /\ d <= MaxDates
    /\ runs' = runs + 1
    /\ e.NORMALIZE_AUDIO = env.NORMALIZE_AUDIO
    /\ e.OPENAI_API_KEY = env.OPENAI_API_KEY
    /\ env' = e
    /\ date' = d
    /\ brief' = b
    /\ feed_at_start' = feed
    /\ primary_calls' = <<>>
    /\ fallback_calls' = <<>>
    /\ failed_at' = 0
    /\ chunk_files' = <<>>
    /\ IF ~b.exists
       THEN /\ pc' = "fatal"
            /\ error' = "Brief file not found"
            /\ UNCHANGED <<speech_text, tts_chunks, tmp>>
       ELSE IF mp3_path(e.is_test, d) \in DOMAIN eps /\ ~e.FORCE_REGEN
       THEN /\ pc' = "skipped"
            /\ error' = ""
            /\ UNCHANGED <<speech_text, tts_chunks, tmp>>
       ELSE /\ pc' = "primary"
            /\ error' = ""
            /\ speech_text' = speech_optimize(b.xml)
            /\ tts_chunks' = chunk_text(speech_text', ChunkLimit)
            /\ tmp' = tmp \cup {TmpDir(runs + 1)}
    /\ UNCHANGED <<eps, feed, fd_calls, fd_last, fd_prev, fd_before,
                   chunkVars, normVars, briefVars>>

\* one iteration of the loop of generate_mp3_openai (lines 340-345)
\*   result "no key":  openai_tts_mp3 raises before any request is sent
\*          "quota":   the provider answers 429 insufficient_quota
\*          "error":   any other HTTP or transport failure
\*          "write":   the audio arrived, write_bytes raised
\*          "ok":      the chunk file is written and listed
TtsChunk(result, partial) ==
    LET i == Len(chunk_files) + 1 IN
    /\ pc = "primary"
    /\ i <= Len(tts_chunks)
    /\ (result = "no key") = ~env.OPENAI_API_KEY
    /\ primary_calls' = IF result = "no key" THEN primary_calls
                        ELSE Append(primary_calls, i)
    /\ IF result = "ok"
       THEN /\ chunk_files' = Append(chunk_files, i)
            /\ tmp' = tmp \cup {ChunkFile(runs, i)}
            /\ UNCHANGED <<pc, failed_at, error>>
       ELSE /\ pc' = AfterChunkFailure
            /\ failed_at' = IF result = "write" THEN failed_at ELSE i
            /\ error' = result
            /\ tmp' = Cleanup(IF result = "write" /\ partial
                              THEN tmp \cup {ChunkFile(runs, i)} ELSE tmp,
                              runs, chunk_files)
            /\ chunk_files' = IF AfterChunkFailure = "primary"
                              THEN Append(chunk_files, i) ELSE chunk_files
    /\ UNCHANGED <<runs, env, date, brief, eps, speech_text, tts_chunks,
                   fallback_calls, feed_at_start, feedVars, chunkVars, normVars, briefVars>>

\* concat_mp3_files, the optional normalize_mp3 + replace, and the
\* "finally" of generate_mp3_openai (lines 347-365)
\*   result "concat": ffmpeg concat failed (or there was no chunk)
\*          "loudnorm": normalize_mp3 failed
\*   partial: the failed ffmpeg left its output file behind
Assemble(result, partial) ==
    LET out == mp3_path(env.is_test, date)
        normalized == normalized_path(env.is_test, date)
    IN
    /\ pc = "primary"
    /\ Len(chunk_files) = Len(tts_chunks)
    /\ tts_chunks = <<>> => result = "concat" /\ ~partial
    /\ result = "loudnorm" => env.NORMALIZE_AUDIO
    /\ tmp' = Cleanup(tmp, runs, chunk_files)
    /\ CASE result = "ok" ->
              /\ eps' = (out :> Audio("openai", IF env.NORMALIZE_AUDIO THEN 1 ELSE 0))
                        @@ eps
              /\ pc' = "publish"
              /\ UNCHANGED error
         [] result = "concat" ->
              /\ eps' = IF partial THEN (out :> Audio("partial", 0)) @@ eps ELSE eps
              /\ pc' = "fallback"
              /\ error' = result
         [] result = "loudnorm" ->
              /\ eps' = (IF partial THEN (normalized :> Audio("partial", 1))
                         ELSE <<>>)
                        @@ (out :> Audio("openai", 0)) @@ eps
              /\ pc' = "fallback"
              /\ error' = result
    /\ UNCHANGED <<runs, env, date, brief, speech_text, tts_chunks, chunk_files,
                   primary_calls, fallback_calls, failed_at, feed_at_start,
                   feedVars, chunkVars, normVars, briefVars>>

\* the except branches of main: fallback_espeak_to_mp3(speech_text, mp3_path)
\* (lines 402-411, 223-259); its ffmpeg filter chain always ends in
\* LOUDNORM_FILTER
Fallback(result, partial) ==
    LET out == mp3_path(env.is_test, date) IN
    /\ pc = "fallback"
    /\ fallback_calls' = Append(fallback_calls, speech_text)
    /\ CASE result = "ok" ->
              /\ eps' = (out :> Audio("espeak", 1)) @@ eps
              /\ pc' = "publish"
              /\ UNCHANGED error
         [] result = "espeak-ng failed" ->
              /\ ~partial
              /\ pc' = "fatal"
              /\ error' = result
              /\ UNCHANGED eps
         [] result = "ffmpeg failed" ->
              /\ eps' = IF partial THEN (out :> Audio("partial", 1)) @@ eps ELSE eps
              /\ pc' = "fatal"
              /\ error' = result
    /\ UNCHANGED <<runs, env, date, brief, tmp, speech_text, tts_chunks, chunk_files,
                   primary_calls, failed_at, feed_at_start,
                   feedVars, chunkVars, normVars, briefVars>>

\* main() from line 413: the enclosure, the TEST_RUN return, update_feed_xml
Publish ==
    /\ pc = "publish"
    /\ IF env.is_test
       THEN /\ pc' = "done"
            /\ UNCHANGED <<feed, error>>
       ELSE LET r == update_feed_xml(feed,
                        title_of(env.is_test, date), DESCRIPTION, runs,
                        enclosure_url_of(env.is_test, date),
                        file_size_bytes(eps[mp3_path(env.is_test, date)]),
                        guid_of(env.is_test, date, runs))
            IN  /\ feed' = r.feed
                /\ pc' = IF Returned(r.outcome) THEN "done" ELSE "fatal"
                /\ error' = r.outcome
    /\ UNCHANGED <<runs, env, date, brief, eps, tmp, speech_text, tts_chunks,
                   chunk_files, primary_calls, fallback_calls, failed_at,
                   feed_at_start, fd_calls, fd_last, fd_prev, fd_before,
                   chunkVars, normVars, briefVars>>

Next ==
    \/ \E e \in Environments, b \in {File(x) : x \in BriefSamples} \cup {NoFile},
          d \in 1..MaxDates : BeginRun(e, b, d)
    \/ \E result \in {"ok", "no key", "quota", "error", "write"},
          partial \in BOOLEAN : TtsChunk(result, partial)
    \/ \E result \in {"ok", "concat", "loudnorm"}, partial \in BOOLEAN :
          Assemble(result, partial)
    \/ \E result \in {"ok", "espeak-ng failed", "ffmpeg failed"},
          partial \in BOOLEAN : Fallback(result, partial)
    \/ Publish

Init ==
    /\ feed \in EarlierFeeds
    /\ fd_calls = 0 /\ fd_last = NoCall /\ fd_prev = NoCall /\ fd_before = NoFile
    /\ IdleChunk
    /\ IdleNorm
    /\ IdleBrief
    /\ StartPublish

Spec == Init /\ [][Next]_vars

\* C1: once the primary provider call for chunk k has failed (quota or any
\* other error), the run makes no further primary call and invokes the
\* fallback synthesizer exactly once, on the full normalized text.
C1_FallbackOnceNoRetry ==
    failed_at # 0 =>
        /\ Len(primary_calls) <= failed_at
        /\ \A j \in 1..Len(primary_calls) : primary_calls[j] = j
        /\ pc = "fallback" => fallback_calls = <<>>
        /\ pc # "fallback" =>
              fallback_calls = <<speech_optimize(brief.xml)>>

\* the provider reported quota exhaustion on chunk 2 of 3 and the fallback
\* rendering is about to be published
C1_Witness ==
    /\ pc = "publish"
    /\ error = "quota"
    /\ failed_at = 2
    /\ Len(tts_chunks) = 3
    /\ primary_calls = <<1, 2>>
    /\ fallback_calls = <<speech_text>>
    /\ ~env.is_test

\* C8: a run that aborts fatally leaves the persisted feed document exactly
\* as it was at the start of the run; the feed is written only by a run
\* whose rendering succeeded and that reached the end.
C8_FatalLeavesFeedUntouched ==
    /\ pc = "fatal" => feed = feed_at_start
    /\ feed # feed_at_start =>
          pc = "done" /\ mp3_path(env.is_test, date) \in DOMAIN eps

\* update_feed_xml raised on the missing marker after it had computed a
\* new lastBuildDate in memory
C8_Witness ==
    /\ pc = "fatal"
    /\ error = "raise: no marker"
    /\ feed.exists
    /\ SubLastBuildDate(feed.xml, <<LBD_OPEN>> \o format_datetime(runs)
                                  \o <<LBD_CLOSE>>) # feed.xml

-----------------------------------------------------------------------------
(* build_brief.py: the Brief Assembler *)
(*                                                                         *)
(* A URL is the record of what urlparse and parse_qsl make of it: whether  *)
(* urlparse accepts it, its scheme://host/path (a number; 0 is the empty   *)
(* one) and the decoded (key, value) pairs of its query in their order.    *)
(* A text is a run of words: the words that matter to the signal lists,    *)
(* followed by `more` one-letter words that match none of them.  Instants   *)
(* are minutes; an absent date (None) is <<>>, a present one is <<t>>.      *)

\* most distinct canonical URLs one run sees
MaxSeen == 6

FEEDS == <<"Utility Dive", "POWER Magazine", "Renewable Energy World",
           "CleanTechnica", "E&E Energywire (Politico)", "Canary Media">>

SOURCE_WEIGHT ==
    [src \in {FEEDS[i] : i \in 1..Len(FEEDS)} |->
        CASE src = "E&E Energywire (Politico)" -> 30
          [] src = "Utility Dive" -> 28
          [] src = "Canary Media" -> 26
          [] src = "POWER Magazine" -> 22
          [] src = "Renewable Energy World" -> 20
          [] src = "CleanTechnica" -> 14]

\* the single-word signals of US_SIGNALS and of IMPACT
US_SIGNALS ==
    {"ferc", "doe", "epa", "nerc", "pjm", "miso", "ercot", "caiso", "nyiso",
     "spp", "iso-ne", "u.s.", "california", "texas", "florida", "illinois",
     "pennsylvania", "ohio", "georgia", "michigan", "virginia", "washington",
     "arizona", "massachusetts", "tennessee", "indiana", "missouri",
     "maryland", "wisconsin", "colorado", "minnesota", "alabama", "louisiana",
     "kentucky", "oregon", "oklahoma", "connecticut", "utah", "iowa", "nevada",
     "arkansas", "mississippi", "kansas", "nebraska", "idaho", "hawaii",
     "maine", "montana", "delaware", "alaska", "vermont"}

IMPACT ==
    {"transmission", "interconnection", "grid", "reliability", "outage",
     "blackout", "wildfire", "pipeline", "lng", "nuclear", "smr", "tariff",
     "rulemaking", "order", "permit", "financing", "acquisition", "merger"}

WORD_TARGET == 2100
WORD_HARD_CAP == 2200

\* str.lower() on the words of the model
Lower(w) ==
    CASE w = "Texas" -> "texas"
      [] w = "FERC" -> "ferc"
      [] w = "Ohio" -> "ohio"
      [] w = "Ohioans" -> "ohioans"
      [] w = "UTM_Source" -> "utm_source"
      [] w = "GCLID" -> "gclid"
      [] OTHER -> w

TRACKING ==
    {"utm_source", "utm_medium", "utm_campaign", "utm_term", "utm_content",
     "fbclid", "gclid"}

NotTracking(kv) == Lower(kv.k) \notin TRACKING

\* mutant of canonicalize: the URL is the dedupe key as it stands
canonicalize_as_is(url) == url

\* canonicalize(url): the query without the tracking parameters; a URL that
\* urlparse rejects is returned as it is
canonicalize(url) ==
    IF ~url.ok THEN url
    ELSE [url EXCEPT !.query = SelectSeq(url.query, NotTracking)]

\* parse_date(entry): the first of published_parsed, updated_parsed set
parse_date(entry) ==
    IF entry.published_parsed # <<>> THEN entry.published_parsed
    ELSE IF entry.updated_parsed # <<>> THEN entry.updated_parsed
    ELSE <<>>

\* the signals that occur inside a lower-case word of the model, and the
\* word itself (`sig in blob` is a substring test)
Substrings(w) ==
    CASE w = "ohioans" -> {w, "ohio"}
      [] OTHER -> {w}

\* what `in` finds in f"{title} {summary}".lower()
Blob(title, summary) ==
    UNION ({Substrings(Lower(title.words[i])) : i \in 1..Len(title.words)}
        \cup {Substrings(Lower(summary.words[i])) :
                  i \in 1..Len(summary.words)})

\* mutant of is_us_relevant: every item passes
is_us_relevant_any(title, summary) == TRUE

is_us_relevant(title, summary) == Blob(title, summary) \cap US_SIGNALS # {}

Min(a, b) == IF a < b THEN a ELSE b
Max(a, b) == IF a > b THEN a ELSE b

\* int(x) of Python for x = num / den, den > 0: truncation toward zero
IntDiv(num, den) == IF num >= 0 THEN num \div den ELSE -((-num) \div den)

\* mutant of score_item: the source is never found in SOURCE_WEIGHT
score_item_default_weight(source, title, summary, published, now) ==
    LET recency == Max(0, IntDiv(40 * 60 - (now - published), 60))
        us == IF Blob(title, summary) \cap US_SIGNALS # {} THEN 20 ELSE 0
        impact == Min(20, 4 * Cardinality(Blob(title, summary) \cap IMPACT))
    IN  10 + recency + us + impact

\* score_item(source, title, summary, published, now_utc); instants in minutes
score_item(source, title, summary, published, now) ==
    LET base == IF source \in DOMAIN SOURCE_WEIGHT THEN SOURCE_WEIGHT[source]
                ELSE 10
        recency == Max(0, IntDiv(40 * 60 - (now - published), 60))
        us == IF Blob(title, summary) \cap US_SIGNALS # {} THEN 20 ELSE 0
        impact == Min(20, 4 * Cardinality(Blob(title, summary) \cap IMPACT))
    IN  base + recency + us + impact

\* now_utc, read once at the start of main, and the instant 30 hours before
now_utc == 6000

\* mutant of window_start: the window is 31 hours long
window_start_31h == now_utc - 31 * 60

window_start == now_utc - 30 * 60

Text(words, more) == [words |-> words, more |-> more]
KV(k, v) == [k |-> k, v |-> v]
Url(path, query) == [ok |-> TRUE, path |-> path, query |-> query]
BadUrl(path, query) == [ok |-> FALSE, path |-> path, query |-> query]
Entry(link, title, summary, published_parsed, updated_parsed) ==
    [link |-> link, title |-> title, summary |-> summary,
     published_parsed |-> published_parsed, updated_parsed |-> updated_parsed]

\* the entries feedparser may return for a feed, in any order and number
\*   E1  a short story, one hour old
\*   E2  the same URL with a tracking parameter; 29 hours old, long summary
\*   E3  the same path with another parameter kept; exactly 30 hours old,
\*       with a title of 2300 words
\*   E4  a URL urlparse rejects; only updated_parsed is set
\*   E5  that URL with a tracking parameter
\*   E6  31 hours old (updated an hour ago)
\*   E7  the URL of E6 with a tracking parameter; three hours old
\*   E8  no date at all
\*   E9  30 hours and one minute old
\*   E10 fresh, without any US signal
\*   E11 no link;  E12 a link that is nothing but a tracking parameter
\*   E13 29 hours old, "Texas" in the summary and no other signal
\*   E14 one hour old, "Ohioans" in the title; it scores as E1 does
\*   E15 one hour old, "Texas" and one impact keyword
\*   E16 one hour old, no US signal and no impact keyword
\*   E17 dated five hours after now_utc, "Texas"; the URL of E13 with a
\*       tracking parameter
E1 == Entry(Url(1, <<>>), Text(<<"Texas", "grid", "outage">>, 0),
            Text(<<"storm">>, 20), <<now_utc - 60>>, <<>>)
E2 == Entry(Url(1, <<KV("UTM_Source", "a")>>), Text(<<"solar">>, 0),
            Text(<<"FERC", "order">>, 400), <<now_utc - 29 * 60>>, <<>>)
E3 == Entry(Url(1, <<KV("id", "7"), KV("GCLID", "x")>>),
            Text(<<"Texas">>, 2300), Text(<<>>, 5), <<now_utc - 30 * 60>>,
            <<now_utc - 60>>)
E4 == Entry(BadUrl(9, <<>>), Text(<<"Ohio", "grid">>, 1100), NoText, <<>>,
            <<now_utc - 120>>)
E5 == Entry(BadUrl(9, <<KV("utm_source", "a")>>),
            Text(<<"Ohio", "nuclear">>, 1100), Text(<<>>, 3),
            <<now_utc - 60>>, <<>>)
E6 == Entry(Url(2, <<>>), Text(<<"Texas", "pipeline">>, 0), Text(<<>>, 9),
            <<now_utc - 31 * 60>>, <<now_utc - 60>>)
E7 == Entry(Url(2, <<KV("fbclid", "1")>>), Text(<<"FERC", "tariff">>, 800),
            Text(<<>>, 9), <<now_utc - 180>>, <<>>)
E8 == Entry(Url(3, <<KV("utm_medium", "rss")>>), Text(<<"Texas">>, 4),
            Text(<<"grid">>, 9), <<>>, <<>>)
E9 == Entry(Url(3, <<>>), Text(<<"Ohio">>, 4), Text(<<>>, 9),
            <<now_utc - 30 * 60 - 1>>, <<>>)
E10 == Entry(Url(4, <<>>), Text(<<"Europe", "grid", "outage">>, 0),
             Text(<<"solar">>, 9), <<now_utc - 30>>, <<>>)
E11 == Entry(EmptyLink, Text(<<"Texas">>, 4), Text(<<>>, 9),
             <<now_utc - 60>>, <<>>)
E12 == Entry(Url(0, <<KV("utm_term", "x")>>), Text(<<"Texas">>, 4),
             Text(<<>>, 9), <<now_utc - 60>>, <<>>)
E13 == Entry(Url(5, <<>>), Text(<<"solar">>, 0), Text(<<"Texas">>, 9),
             <<now_utc - 29 * 60>>, <<>>)
E14 == Entry(Url(6, <<>>), Text(<<"Ohioans", "reliability", "permit">>, 0),
             Text(<<"storm">>, 20), <<now_utc - 60>>, <<>>)
E15 == Entry(Url(2, <<KV("gclid", "3")>>), Text(<<"Texas", "merger">>, 0),
             Text(<<>>, 9), <<now_utc - 60>>, <<>>)
E16 == Entry(Url(4, <<KV("fbclid", "2")>>), Text(<<"Europe", "solar">>, 0),
             Text(<<>>, 9), <<now_utc - 60>>, <<>>)
E17 == Entry(Url(5, <<KV("utm_source", "a")>>), Text(<<"Texas", "solar">>, 0),
             Text(<<>>, 9), <<now_utc + 5 * 60>>, <<>>)

Entries(source) ==
    CASE source = "Utility Dive" -> {E1, E2, E3, E6, E8, E9, E11, E13, E14}
      [] source = "E&E Energywire (Politico)" ->
             {E2, E4, E5, E7, E10, E12, E15, E16, E17}
      [] OTHER -> {}

StartBrief ==
    /\ bb_pc = "start"
    /\ bb_feed = 0
    /\ bb_seen = {}
    /\ bb_items = <<>>
    /\ bb_last = NoEntry
    /\ bb_top = <<>>
    /\ bb_lines = <<>>
    /\ bb_script = <<>>

\* for source, feed_url in FEEDS: d = feedparser.parse(feed_url)
FetchFeed ==
    /\ bb_pc \in {"start", "fetch"}
    /\ bb_feed < Len(FEEDS)
    /\ bb_feed' = bb_feed + 1
    /\ bb_pc' = "fetch"
    /\ UNCHANGED <<bb_seen, bb_items, bb_last, bb_top, bb_lines, bb_script>>
    /\ UNCHANGED <<chunkVars, normVars, feedVars, publishVars>>

\* the branch the loop body takes on entry e (lines 114-128)
Outcome(e, seen) ==
    LET url == canonicalize(e.link)
        published == parse_date(e)
    IN  IF url = EmptyLink THEN "no link"
        ELSE IF url \in seen THEN "duplicate"
        ELSE IF published = <<>> THEN "undated"
        ELSE IF published[1] < window_start THEN "stale"
        ELSE IF ~is_us_relevant(e.title, e.summary) THEN "irrelevant"
        ELSE "kept"

\* the body of `for e in d.entries` (lines 112-138)
ProcessEntry(e) ==
    LET source == FEEDS[bb_feed]
        url == canonicalize(e.link)
        outcome == Outcome(e, bb_seen)
    IN  /\ bb_pc = "fetch"
        /\ e \in Entries(source)
        /\ url \in bb_seen \cup {EmptyLink} \/ Cardinality(bb_seen) < MaxSeen
        /\ bb_last' = [entry |-> e, outcome |-> outcome]
        /\ bb_seen' = IF outcome \in {"no link", "duplicate"} THEN bb_seen
                      ELSE bb_seen \cup {url}
        /\ bb_items' =
              IF outcome = "kept"
              THEN Append(bb_items,
                     [source |-> source, title |-> e.title, url |-> url,
                      published |-> parse_date(e)[1], summary |-> e.summary,
                      score |-> score_item(source, e.title, e.summary,
                                           parse_date(e)[1], now_utc)])
              ELSE bb_items
        /\ UNCHANGED <<bb_pc, bb_feed, bb_top, bb_lines, bb_script>>
        /\ UNCHANGED <<chunkVars, normVars, feedVars, publishVars>>

\* items.sort(key=score, reverse=True): stable, so equal scores keep the
\* order of discovery
\* mutant of InsertByScore: a later item goes before the earlier ones of
\* equal score
RECURSIVE InsertBeforeEqual(_, _)
InsertBeforeEqual(sorted, it) ==
    IF sorted = <<>> THEN <<it>>
    ELSE IF Head(sorted).score > it.score
         THEN <<Head(sorted)>> \o InsertBeforeEqual(Tail(sorted), it)
         ELSE <<it>> \o sorted

RECURSIVE InsertByScore(_, _)
InsertByScore(sorted, it) ==
    IF sorted = <<>> THEN <<it>>
    ELSE IF Head(sorted).score >= it.score
         THEN <<Head(sorted)>> \o InsertByScore(Tail(sorted), it)
         ELSE <<it>> \o sorted

RECURSIVE SortByScore(_)
SortByScore(items) ==
    IF items = <<>> THEN <<>>
    ELSE InsertByScore(SortByScore(SubSeq(items, 1, Len(items) - 1)),
                       items[Len(items)])

\* word_count(txt) = len(re.findall(r"\b\w+\b", txt)) on the texts of the model
WordsOfText(t) == Len(t.words) + t.more
WordsOfSource(source) ==
    CASE source = "Renewable Energy World" -> 3
      [] source = "CleanTechnica" -> 1
      [] source = "E&E Energywire (Politico)" -> 4
      [] OTHER -> 2
\* https://example.com/<path> or http://[bad/<path>, and k=v per parameter
WordsOfUrl(url) == (IF url.ok THEN 4 ELSE 3) + 2 * Len(url.query)

\* len(w) of the words of the model
Chars(w) ==
    CASE w \in {"FERC", "grid"} -> 4
      [] w = "Ohioans" -> 7
      [] OTHER -> 5

RECURSIVE CharsOf(_)
CharsOf(words) ==
    IF words = <<>> THEN 0 ELSE Chars(Head(words)) + 1 + CharsOf(Tail(words))

\* if len(s) > 600: s = s[:600].rsplit(" ", 1)[0] + "...": the words that end
\* before the last space of the first 600 characters
Truncate(s) ==
    LET head == CharsOf(s.words)
        len == IF WordsOfText(s) = 0 THEN 0 ELSE head + 2 * s.more - 1
    IN  IF len > 600 THEN [s EXCEPT !.more = (600 - head) \div 2] ELSE s

\* the elements of lines: the header, the disclosure, the blank ones, and
\* one candidate per story
Line(kind, idx, url, words) ==
    [kind |-> kind, idx |-> idx, url |-> url, words |-> words]
HeaderLines ==
    <<Line("header", 0, EmptyLink, 8), Line("blank", 0, EmptyLink, 0),
      Line("disclosure", 0, EmptyLink, 16), Line("blank", 0, EmptyLink, 0)>>

\* candidate = "\n".join(block) for story idx of top (lines 157-166)
Candidate(idx, it) ==
    Line("story", idx, it.url,
         1 + WordsOfText(it.title) + WordsOfSource(it.source)
           + 1 + WordsOfUrl(it.url) + WordsOfText(Truncate(it.summary)))

RECURSIVE word_count(_)
word_count(lines) ==
    IF lines = <<>> THEN 0 ELSE Head(lines).words + word_count(Tail(lines))

\* mutant of Pack: the soft target may stop the loop at the first story
RECURSIVE PackStopAtFirst(_, _, _)
PackStopAtFirst(lines, top, idx) ==
    IF idx > Len(top) THEN lines
    ELSE LET candidate == Candidate(idx, top[idx]) IN
         IF word_count(lines) + candidate.words > WORD_TARGET /\ Len(lines) > 3
         THEN lines
         ELSE PackStopAtFirst(Append(lines, candidate), top, idx + 1)

\* for idx, it in enumerate(top, 1): ... (lines 156-171)
RECURSIVE Pack(_, _, _)
Pack(lines, top, idx) ==
    IF idx > Len(top) THEN lines
    ELSE LET candidate == Candidate(idx, top[idx]) IN
         IF word_count(lines) + candidate.words > WORD_TARGET /\ Len(lines) > 6
         THEN lines
         ELSE Pack(Append(lines, candidate), top, idx + 1)

\* script.strip().split("\n\n") of script = "\n".join(lines): the header,
\* the disclosure, and one part per story
IsPart(line) == line.kind # "blank"
Parts(lines) == SelectSeq(lines, IsPart)

\* mutant of HardCap: one trailing part at most is removed
HardCapOnce(parts) ==
    IF word_count(parts) > WORD_HARD_CAP /\ Len(parts) > 3
    THEN SubSeq(parts, 1, Len(parts) - 1)
    ELSE parts

\* while word_count(script) > WORD_HARD_CAP: ... (lines 175-181), on the parts
\* of the script
RECURSIVE HardCap(_)
HardCap(parts) ==
    IF word_count(parts) > WORD_HARD_CAP /\ Len(parts) > 3
    THEN HardCap(SubSeq(parts, 1, Len(parts) - 1))
    ELSE parts

\* lines 140-181: sort, top five, packing, hard cap
BuildScript ==
    LET top == SubSeq(SortByScore(bb_items), 1, Min(5, Len(bb_items)))
        lines == Pack(HeaderLines, top, 1)
    IN  /\ bb_pc = "fetch"
        /\ bb_feed = Len(FEEDS)
        /\ bb_top' = top
        /\ bb_lines' = lines
        /\ bb_script' = HardCap(Parts(lines))
        /\ bb_pc' = "done"
        /\ UNCHANGED <<bb_feed, bb_seen, bb_items, bb_last>>
        /\ UNCHANGED <<chunkVars, normVars, feedVars, publishVars>>

AllEntries == UNION {Entries(FEEDS[i]) : i \in 1..Len(FEEDS)}

NextBrief ==
    \/ FetchFeed
    \/ \E e \in AllEntries : ProcessEntry(e)
    \/ BuildScript

InitBrief == StartBrief /\ IdleChunk /\ IdleNorm /\ IdleFeed /\ IdlePublish

SpecBrief == InitBrief /\ [][NextBrief]_vars

\* C3 as stated: the final script never has more than WORD_HARD_CAP words.
C3_NeverOverHardCap ==
    bb_pc = "done" => word_count(bb_script) <= WORD_HARD_CAP

\* C3: the final script is the packed script without some trailing parts,
\* none removed needlessly, and it has at most WORD_HARD_CAP words unless it
\* is down to the header, the disclosure and the first story, which are
\* kept whatever their length.
C3_HardCapOrSkeleton ==
    bb_pc = "done" =>
        /\ bb_script = SubSeq(Parts(bb_lines), 1, Len(bb_script))
        /\ word_count(bb_script) <= WORD_HARD_CAP \/ Len(bb_script) <= 3
        /\ Len(bb_script) < Len(Parts(bb_lines)) =>
              word_count(SubSeq(Parts(bb_lines), 1, Len(bb_script) + 1))
                  > WORD_HARD_CAP

\* three stories were packed past the cap and two of them were removed
C3_Witness ==
    /\ bb_pc = "done"
    /\ Len(Parts(bb_lines)) = 5
    /\ Len(bb_script) = 3
    /\ word_count(bb_script) <= WORD_HARD_CAP

\* C4: when at least one story is eligible, the final script holds the block
\* of the top-ranked story as its first story block, whatever its length.
C4_TopStoryKept ==
    bb_pc = "done" /\ bb_items # <<>> =>
        /\ \E i \in 1..Len(bb_items) : bb_items[i] = bb_top[1]
        /\ \A i \in 1..Len(bb_items) : bb_items[i].score <= bb_top[1].score
        /\ Len(bb_script) >= 3
        /\ bb_script[3] = Candidate(1, bb_top[1])

\* the top-ranked story alone is longer than the hard cap
C4_Witness ==
    /\ bb_pc = "done"
    /\ bb_items # <<>>
    /\ Candidate(1, bb_top[1]).words > WORD_HARD_CAP
    /\ bb_script[3].idx = 1

\* two URLs that are equal or differ only in tracking parameters
SameButTracking(u, v) ==
    /\ u.ok = v.ok
    /\ u.path = v.path
    /\ SelectSeq(u.query, NotTracking) = SelectSeq(v.query, NotTracking)

\* one step of the run, seen as the handling of the entry bb_last' names:
\* an entry whose URL equals, or differs only in tracking parameters from,
\* a URL seen earlier is dropped; candidates are only ever appended, one at
\* a time and for a URL not seen before; and no two candidates have URLs
\* that are equal or differ only in tracking parameters.  With any = FALSE
\* this is said of the URLs urlparse accepts only.
DedupeStep(any) ==
    /\ /\ bb_last' # bb_last
       /\ any \/ bb_last'.entry.link.ok
       /\ \E v \in bb_seen : SameButTracking(bb_last'.entry.link, v)
       => bb_items' = bb_items /\ bb_seen' = bb_seen
    /\ bb_items' # bb_items =>
          /\ Len(bb_items') = Len(bb_items) + 1
          /\ SubSeq(bb_items', 1, Len(bb_items)) = bb_items
          /\ bb_items'[Len(bb_items')].url \notin bb_seen
          /\ bb_items'[Len(bb_items')].url \in bb_seen'
    /\ \A i, j \in 1..Len(bb_items') :
          i # j =>
              /\ bb_items'[i].url # bb_items'[j].url
              /\ any \/ bb_items'[i].url.ok =>
                    ~SameButTracking(bb_items'[i].url, bb_items'[j].url)

\* C9 as stated: no two candidates share a canonical URL, and of any two
\* entries whose URLs differ only in tracking parameters the later-seen is
\* dropped, whatever the URLs are.
C9_DedupeAnyUrl == [][DedupeStep(TRUE)]_vars

\* C9: no two candidates share a canonical URL; two URLs that urlparse
\* accepts and that differ only in tracking parameters canonicalize to the
\* same URL, and the later-seen entry of the two is dropped, also when the
\* first-seen one was itself discarded.  (A URL that urlparse rejects is its
\* own key, tracking parameters included.)
C9_DedupeParsedUrl == [][DedupeStep(FALSE)]_vars

\* the entry handled last carries a tracking parameter, its URL without it
\* is the URL of an earlier candidate, and it was dropped
C9_Witness ==
    /\ bb_last.outcome = "duplicate"
    /\ bb_last.entry.link.ok
    /\ canonicalize(bb_last.entry.link) # bb_last.entry.link
    /\ \E i \in 1..Len(bb_items) :
          bb_items[i].url = canonicalize(bb_last.entry.link)

\* C10: every candidate has a date no earlier than 30 hours before now; an
\* entry without a date or with an earlier one is never a candidate, and the
\* freshness check rejects no entry dated within the 30 hours.
C10_FreshnessGate ==
    /\ \A i \in 1..Len(bb_items) :
          bb_items[i].published >= now_utc - 30 * 60
    /\ bb_last.outcome = "kept" =>
          /\ parse_date(bb_last.entry) # <<>>
          /\ parse_date(bb_last.entry)[1] >= now_utc - 30 * 60
          /\ bb_items[Len(bb_items)].published = parse_date(bb_last.entry)[1]
    /\ bb_last.outcome = "stale" =>
          /\ parse_date(bb_last.entry) # <<>>
          /\ parse_date(bb_last.entry)[1] < now_utc - 30 * 60
    /\ bb_last.outcome = "undated" =>
          /\ bb_last.entry.published_parsed = <<>>
          /\ bb_last.entry.updated_parsed = <<>>

\* a 29-hour-old entry is a candidate and the 31-hour-old entry handled last
\* was rejected as stale
C10_Witness ==
    /\ \E i \in 1..Len(bb_items) :
          bb_items[i].published = now_utc - 29 * 60
    /\ bb_last.outcome = "stale"
    /\ parse_date(bb_last.entry)[1] = now_utc - 31 * 60

\* C11: relevance is a hard gate.  Every candidate, every selected story and
\* every story of the script has a regional keyword in its title or summary
\* (as a substring, in any letter case); an entry rejected as irrelevant has
\* none, whatever it would have scored; a keyword in the summary alone is
\* enough.
C11_RelevanceGate ==
    /\ \A i \in 1..Len(bb_items) :
          Blob(bb_items[i].title, bb_items[i].summary) \cap US_SIGNALS # {}
    /\ \A i \in 1..Len(bb_top) :
          /\ \E j \in 1..Len(bb_items) : bb_items[j] = bb_top[i]
          /\ Blob(bb_top[i].title, bb_top[i].summary) \cap US_SIGNALS # {}
    /\ bb_last.outcome = "irrelevant" =>
          Blob(bb_last.entry.title, bb_last.entry.summary) \cap US_SIGNALS = {}
    /\ bb_last.outcome = "kept" =>
          Blob(bb_last.entry.title, bb_last.entry.summary) \cap US_SIGNALS # {}

\* the entry handled last has no regional keyword and was rejected although
\* it would have outscored a candidate whose only signal is "Texas" in its
\* summary
C11_Witness ==
    /\ bb_last.outcome = "irrelevant"
    /\ \E i \in 1..Len(bb_items) :
          /\ Blob(bb_items[i].title, NoText) \cap US_SIGNALS = {}
          /\ Blob(NoText, bb_items[i].summary) = {"texas"}
          /\ Blob(bb_items[i].title, bb_items[i].summary) \cap IMPACT = {}
          /\ bb_items[i].score
                < score_item(FEEDS[bb_feed], bb_last.entry.title,
                             bb_last.entry.summary,
                             parse_date(bb_last.entry)[1], now_utc)

\* the place of candidate i in the order by score, highest first, where of
\* two candidates of equal score the one discovered first comes first
Rank(i) ==
    1 + Cardinality({j \in 1..Len(bb_items) :
                        \/ bb_items[j].score > bb_items[i].score
                        \/ /\ bb_items[j].score = bb_items[i].score
                           /\ j < i})

\* C12: the selected stories are the first min(5, n) of the candidates in
\* the order by score descending, ties in discovery order; the selection is
\* thereby a function of the candidates alone.
C12_StableTopFive ==
    bb_pc = "done" =>
        /\ Len(bb_top) = Min(5, Len(bb_items))
        /\ \A i \in 1..Len(bb_items) :
              Rank(i) <= 5 => bb_top[Rank(i)] = bb_items[i]

\* six candidates, so one is cut, and two selected stories of equal score
C12_Witness ==
    /\ bb_pc = "done"
    /\ Len(bb_items) = 6
    /\ Len(bb_top) = 5
    /\ \E i \in 1..4 : bb_top[i].score = bb_top[i + 1].score

\* the entry handled last, if it is dated exactly one hour before now
LastOneHourOld ==
    /\ bb_last.outcome # "none"
    /\ parse_date(bb_last.entry) = <<now_utc - 60>>

\* score_item applied to the entry handled last as an entry of the source
\* of weight 30
LastScore ==
    score_item("E&E Energywire (Politico)", bb_last.entry.title,
               bb_last.entry.summary, parse_date(bb_last.entry)[1], now_utc)

LastRegional ==
    Blob(bb_last.entry.title, bb_last.entry.summary) \cap US_SIGNALS # {}
LastImpacts ==
    Cardinality(Blob(bb_last.entry.title, bb_last.entry.summary) \cap IMPACT)

\* C13 as stated: from a source of weight 30, a one-hour-old item with a
\* regional keyword and exactly one impact keyword scores 30+35+20+4 = 89,
\* and one with neither scores 30+35 = 65.
C13_ScoresAsStated ==
    LastOneHourOld =>
        /\ LastRegional /\ LastImpacts = 1 => LastScore = 89
        /\ ~LastRegional /\ LastImpacts = 0 => LastScore = 65

\* C13: from a source of weight 30, a one-hour-old item with a regional
\* keyword and exactly one impact keyword scores 30+39+20+4 = 93, and one
\* with neither scores 30+39 = 69: recency is 39 at one hour.
C13_ScoresOneHourOld ==
    /\ LastOneHourOld =>
          /\ LastRegional /\ LastImpacts = 1 => LastScore = 93
          /\ ~LastRegional /\ LastImpacts = 0 => LastScore = 69
    /\ \A i \in 1..Len(bb_items) :
          /\ SOURCE_WEIGHT[bb_items[i].source] = 30
          /\ bb_items[i].published = now_utc - 60
          /\ Cardinality(Blob(bb_items[i].title, bb_items[i].summary)
                             \cap IMPACT) = 1
          => bb_items[i].score = 93

\* the one-hour-old Texas entry with one impact keyword was kept from the
\* source of weight 30
C13_Witness ==
    /\ LastOneHourOld
    /\ bb_last.outcome = "kept"
    /\ "texas" \in Blob(bb_last.entry.title, bb_last.entry.summary)
    /\ LastImpacts = 1
    /\ bb_items[Len(bb_items)].source = "E&E Energywire (Politico)"
    /\ bb_items[Len(bb_items)].score = LastScore

\* C14 as stated: in a run without the provider credential nothing is
\* rendered through the fallback synthesizer and no episode is published:
\* the run aborts.
C14_NoCredentialIsFatal ==
    ~env.OPENAI_API_KEY =>
        /\ fallback_calls = <<>>
        /\ pc \notin {"publish", "done"}

\* C15 as stated: every non-test run that ends without a fatal error has
\* rewritten the feed document, a re-run for a date whose MP3 exists
\* included.
C15_FeedWrittenEveryRun ==
    ~env.is_test /\ pc \in {"done", "skipped"} => feed # feed_at_start

\* the episode entries of a feed text, in document order: each runs from
\* its <item> to the end of its enclosure
RECURSIVE EntriesOf(_)
EntriesOf(xml) ==
    LET i == Find(xml, <<ITEM_TITLE>>, 1)
        j == IF i = 0 THEN 0 ELSE Find(xml, <<LENGTH_END>>, i)
    IN  IF i = 0 \/ j = 0 THEN <<>>
        ELSE <<SubSeq(xml, i, j)>> \o EntriesOf(SubSeq(xml, j + 1, Len(xml)))

\* the text before the anchor and the text from the anchor on
BeforeAnchor(xml) == SubSeq(xml, 1, Find(xml, <<MARKER>>, 1) - 1)
FromAnchor(xml) == SubSeq(xml, Find(xml, <<MARKER>>, 1), Len(xml))

\* C16: a call of update_feed_xml that returns, made on a document with the
\* anchor exactly once, leaves the anchor exactly once and the text from the
\* anchor on as it was; the older entries stay, unchanged and in their
\* order; an inserted entry is the last one and ends right before the
\* anchor (and its indentation); nothing else but lastBuildDate changes.
C16_AppendOnlyBeforeAnchor ==
    /\ fd_calls > 0
    /\ Returned(fd_last.outcome)
    /\ Count(fd_before.xml, <<MARKER>>) = 1
    => LET old == EntriesOf(fd_before.xml)
           new == EntriesOf(feed.xml)
           head == BeforeAnchor(WithoutLastBuildDate(feed).xml)
           oldhead == BeforeAnchor(WithoutLastBuildDate(fd_before).xml)
       IN  /\ Count(feed.xml, <<MARKER>>) = 1
           /\ FromAnchor(feed.xml) = FromAnchor(fd_before.xml)
           /\ SubSeq(new, 1, Len(old)) = old
           /\ fd_last.outcome = "skipped" => new = old /\ head = oldhead
           /\ fd_last.outcome = "inserted" =>
                 /\ Len(new) = Len(old) + 1
                 /\ Contains(new[Len(new)], GuidElement(fd_last.guid))
                 /\ head = oldhead \o new[Len(new)] \o <<INDENT>>

\* a third entry was inserted behind two older ones
C16_Witness ==
    /\ fd_calls = 3
    /\ fd_last.outcome = "inserted"
    /\ Count(fd_before.xml, <<MARKER>>) = 1
    /\ Len(EntriesOf(fd_before.xml)) = 2
    /\ Len(EntriesOf(feed.xml)) = 3

\* C17: every call of update_feed_xml on a document without the anchor
\* ends with the fatal error, also when the guid or the enclosure URL of
\* the call is already in the document.
C17_MissingAnchorIsFatal ==
    /\ fd_calls > 0
    /\ fd_before.exists
    /\ ~Contains(fd_before.xml, <<MARKER>>)
    => fd_last.outcome = "raise: no marker"

\* C18: when a publish run has ended, with an episode or with a fatal
\* error, nothing temporary of the run is left: no chunk file, no
\* temporary directory, no normalized intermediate file.
C18_ScopedCleanup ==
    pc \in {"done", "fatal"} =>
        /\ tmp = {}
        /\ normalized_path(env.is_test, date) \notin DOMAIN eps

\* the recency part of an item's score: the score less the score the same
\* item gets when it is 40 hours old
RecencyOf(it) ==
    it.score - score_item(it.source, it.title, it.summary,
                          now_utc - 40 * 60, now_utc)

\* C19: the recency contribution of every scored item lies in 0..40, so
\* no score exceeds base + 80.
C19_RecencyWithin40 ==
    \A i \in 1..Len(bb_items) :
        /\ RecencyOf(bb_items[i]) \in 0..40
        /\ bb_items[i].score <= SOURCE_WEIGHT[bb_items[i].source] + 80

\* C20: the episode a run has rendered, by the provider or by the fallback
\* synthesizer, went through the loudness filter once if NORMALIZE_AUDIO
\* is on and not at all if it is off.
C20_LoudnormFollowsToggle ==
    pc \in {"publish", "done"} =>
        eps[mp3_path(env.is_test, date)].loudnorm
            = IF env.NORMALIZE_AUDIO THEN 1 ELSE 0

\* C21: when a non-test run with FORCE_REGEN off has completed without
\* error, the feed document holds an entry with the guid of the run's date,
\* also when the MP3 of that date was left by an earlier run that aborted
\* before the feed update.
C21_CompletedRunIsPublished ==
    /\ ~env.is_test
    /\ ~env.FORCE_REGEN
    /\ pc \in {"done", "skipped"}
    => /\ feed.exists
       /\ Contains(feed.xml, GuidElement(guid_of(FALSE, date, runs)))

=============================================================================
